---- MODULE Spec2Model ----
(***************************************************************************)
(* Type-definition generation of the napi-rs CLI                           *)
(* (crates/cli/src/utils/typedef.rs): the indentation normalizer           *)
(* correct_str_indent, the record loader and its sort, the merge step      *)
(* TypeDefLine::preprocess and the emitter into_dts.                       *)
(*                                                                         *)
(* A text (Rust String / &str) is a sequence of one-character strings, so  *)
(* that splitting into lines, trimming, indenting and the trailing newline *)
(* are computed character by character, as the code computes them.         *)
(***************************************************************************)
EXTENDS Integers, Sequences, FiniteSets, TLC

(***************************************************************************)
(* Bounds of the model.                                                    *)
(***************************************************************************)
\* longest text drawn character by character for correct_str_indent
MaxLen == 4
\* most lines of a text drawn line by line for correct_str_indent
MaxLines == 5
\* largest base indent passed to correct_str_indent
MaxIndent == 2
\* most records (non-empty lines) of an intermediate type-def file
MaxRecords == 3

(***************************************************************************)
(* Characters and texts.                                                   *)
(***************************************************************************)
NL == "\n"

SP == " "

\* The whitespace of the model's alphabet (char::is_whitespace restricted to it).
IsWhitespace(c) == c \in {SP, NL}

EndsWith(s, c) == Len(s) > 0 /\ s[Len(s)] = c

StartsWith(s, c) == Len(s) > 0 /\ s[1] = c

RECURSIVE Repeat(_, _)
Repeat(c, n) == IF n <= 0 THEN <<>> ELSE <<c>> \o Repeat(c, n - 1)

RECURSIVE Concat(_)
Concat(ss) == IF ss = <<>> THEN <<>> ELSE Head(ss) \o Concat(Tail(ss))

\* [String]::join(sep)
RECURSIVE Join(_, _)
Join(ss, sep) ==
  IF ss = <<>> THEN <<>>
  ELSE IF Len(ss) = 1 THEN Head(ss)
  ELSE Head(ss) \o sep \o Join(Tail(ss), sep)

\* str::lines(): the text split at every "\n"; a last line that is empty (the
\* text is empty or ends with "\n") is not yielded.
RECURSIVE Lines(_)
Lines(s) ==
  IF s = <<>> THEN <<>>
  ELSE IF \A i \in 1..Len(s) : s[i] # NL THEN <<s>>
  ELSE LET i == CHOOSE j \in 1..Len(s) : s[j] = NL /\ \A k \in 1..(j - 1) : s[k] # NL
       IN <<SubSeq(s, 1, i - 1)>> \o Lines(SubSeq(s, i + 1, Len(s)))

\* str::trim_start()
RECURSIVE TrimStart(_)
TrimStart(s) ==
  IF s # <<>> /\ IsWhitespace(Head(s)) THEN TrimStart(Tail(s)) ELSE s

\* str::trim_end()
RECURSIVE TrimEnd(_)
TrimEnd(s) ==
  IF s # <<>> /\ IsWhitespace(s[Len(s)]) THEN TrimEnd(SubSeq(s, 1, Len(s) - 1)) ELSE s

\* a trim that forgets the leading whitespace
TrimEndOnly(s) == TrimEnd(s)

\* str::trim()
Trim(s) == TrimStart(TrimEnd(s))

(***************************************************************************)
(* correct_str_indent                                                      *)
(***************************************************************************)
\* the closure with an opening line indented at the depth it opens
IndentLineOpenerInside(raw, indent, depth) ==
  LET line == Trim(raw)
      is_in_multiline_comment == StartsWith(line, "*")
      opens == EndsWith(line, "{") /\ ~is_in_multiline_comment
      closes == ~opens /\ EndsWith(line, "}") /\ depth > 0 /\ ~is_in_multiline_comment
      depth2 == IF opens THEN depth + 1 ELSE IF closes THEN depth - 1 ELSE depth
      right_indent == indent + depth2 * 2 + (IF is_in_multiline_comment THEN 1 ELSE 0)
  IN IF line = <<>>
       THEN [s |-> <<>>, depth |-> depth]
       ELSE [s |-> Repeat(SP, right_indent) \o line, depth |-> depth2]

\* the closure with a "*" line that opens a block when it ends in "{"
IndentLineCommentOpens(raw, indent, depth) ==
  LET line == Trim(raw)
      is_in_multiline_comment == StartsWith(line, "*")
      is_closing_bracket == EndsWith(line, "}")
      is_opening_bracket == EndsWith(line, "{")
      opens == is_opening_bracket
      closes == ~opens /\ is_closing_bracket /\ depth > 0 /\ ~is_in_multiline_comment
      depth2 == IF opens THEN depth + 1 ELSE IF closes THEN depth - 1 ELSE depth
      right_indent ==
        indent + (IF opens THEN (depth2 - 1) * 2 ELSE depth2 * 2)
               + (IF is_in_multiline_comment THEN 1 ELSE 0)
  IN IF line = <<>>
       THEN [s |-> <<>>, depth |-> depth]
       ELSE [s |-> Repeat(SP, right_indent) \o line, depth |-> depth2]

\* the closure that closes a block at any bracket_depth
IndentLineUnguarded(raw, indent, depth) ==
  LET line == Trim(raw)
      is_in_multiline_comment == StartsWith(line, "*")
      is_closing_bracket == EndsWith(line, "}")
      is_opening_bracket == EndsWith(line, "{")
      opens == is_opening_bracket /\ ~is_in_multiline_comment
      closes == ~opens /\ is_closing_bracket /\ ~is_in_multiline_comment
      depth2 == IF opens THEN depth + 1 ELSE IF closes THEN depth - 1 ELSE depth
      right_indent ==
        indent + (IF opens THEN (depth2 - 1) * 2 ELSE depth2 * 2)
               + (IF is_in_multiline_comment THEN 1 ELSE 0)
  IN IF line = <<>>
       THEN [s |-> <<>>, depth |-> depth]
       ELSE [s |-> Repeat(SP, right_indent) \o line, depth |-> depth2]

\* The closure of the map over the lines, for one line at bracket_depth `depth`:
\* the line it returns and the bracket_depth it leaves.
IndentLine(raw, indent, depth) ==
  LET line == Trim(raw)
      is_in_multiline_comment == StartsWith(line, "*")
      is_closing_bracket == EndsWith(line, "}")
      is_opening_bracket == EndsWith(line, "{")
      opens == is_opening_bracket /\ ~is_in_multiline_comment
      closes == ~opens /\ is_closing_bracket /\ depth > 0 /\ ~is_in_multiline_comment
      depth2 == IF opens THEN depth + 1 ELSE IF closes THEN depth - 1 ELSE depth
      right_indent ==
        indent + (IF opens THEN (depth2 - 1) * 2 ELSE depth2 * 2)
               + (IF is_in_multiline_comment THEN 1 ELSE 0)
  IN IF line = <<>>
       THEN [s |-> <<>>, depth |-> depth]
       ELSE [s |-> Repeat(SP, right_indent) \o line, depth |-> depth2]

\* The lines the map yields, in order, starting at bracket_depth `depth`.
RECURSIVE IndentLines(_, _, _)
IndentLines(ls, indent, depth) ==
  IF ls = <<>> THEN <<>>
  ELSE LET r == IndentLine(Head(ls), indent, depth)
       IN <<r.s>> \o IndentLines(Tail(ls), indent, r.depth)

\* correct_str_indent without the push of the newline that lines() ate
IndentNoTrailingNewline(src, indent) == Join(IndentLines(Lines(src), indent, 0), <<NL>>)

correct_str_indent(src, indent) ==
  LET result == Join(IndentLines(Lines(src), indent, 0), <<NL>>)
  IN IF EndsWith(src, NL) THEN Append(result, NL) ELSE result

(***************************************************************************)
(* Byte-wise comparison of strings (String::cmp).                          *)
(***************************************************************************)
\* The byte of each character that occurs in a name or a namespace key.
Byte(c) ==
  CASE c = "A" -> 65 [] c = "E" -> 69 [] c = "L" -> 76 [] c = "O" -> 79
    [] c = "P" -> 80 [] c = "T" -> 84 [] c = "V" -> 86 [] c = "X" -> 88
    [] c = "Y" -> 89 [] c = "Z" -> 90 [] c = "_" -> 95 [] c = "a" -> 97

\* a.cmp(&b) of two strings: lexicographic by byte, a proper prefix is Less.
RECURSIVE StrCmp(_, _)
StrCmp(a, b) ==
  IF a = <<>> THEN (IF b = <<>> THEN "Equal" ELSE "Less")
  ELSE IF b = <<>> THEN "Greater"
  ELSE IF Byte(Head(a)) < Byte(Head(b)) THEN "Less"
  ELSE IF Byte(Head(a)) > Byte(Head(b)) THEN "Greater"
  ELSE StrCmp(Tail(a), Tail(b))

StrLess(a, b) == StrCmp(a, b) = "Less"

(***************************************************************************)
(* TypeDefKind and TypeDefLine.  An Option is <<>> (None) or <<v>> (Some). *)
(***************************************************************************)
TypeDefKind == {"Const", "Fn", "Struct", "Impl", "Enum", "Interface"}

None == <<>>

Some(v) == <<v>>

\* Option<String>::unwrap_or_default()
UnwrapOrDefault(o) == IF o = None THEN <<>> ELSE o[1]

TypeDefLine(kind, name, original_name, def, js_doc, js_mod) ==
  [kind |-> kind, name |-> name, original_name |-> original_name,
   def |-> def, js_doc |-> js_doc, js_mod |-> js_mod]

TOP_LEVEL_NAMESPACE ==
  <<"_","_","T","O","P","_","L","E","V","E","L","_","_">>

TYPE_DEF_HEADER ==
  <<"/","*"," ","t","s","l","i","n","t",":","d","i","s","a","b","l","e"," ","*","/","\n","/",
    "*"," ","e","s","l","i","n","t","-","d","i","s","a","b","l","e"," ","*","/","\n","\n","/",
    "*"," ","a","u","t","o","-","g","e","n","e","r","a","t","e","d"," ","b","y"," ","N","A","P",
    "I","-","R","S"," ","*","/","\n","\n">>

\* The raw string pushed after the header: the ExternalObject class.
EXTERNAL_OBJECT_PREAMBLE ==
  <<"e","x","p","o","r","t"," ","c","l","a","s","s"," ","E","x","t","e","r","n","a","l","O","b",
    "j","e","c","t","<","T",">"," ","{","\n"," "," ","r","e","a","d","o","n","l","y"," ","'",
    "'",":"," ","{","\n"," "," "," "," ","r","e","a","d","o","n","l","y"," ","'","'",":"," ",
    "u","n","i","q","u","e"," ","s","y","m","b","o","l","\n"," "," "," "," ","[","K",":"," ",
    "s","y","m","b","o","l","]",":"," ","T","\n"," "," ","}","\n","}","\n","\n">>

ExportInterface ==
  <<"e","x","p","o","r","t"," ","i","n","t","e","r","f","a","c","e"," ">>

ExportConstEnum ==
  <<"e","x","p","o","r","t"," ","c","o","n","s","t"," ","e","n","u","m"," ">>

ExportClass ==
  <<"e","x","p","o","r","t"," ","c","l","a","s","s"," ">>

ExportType ==
  <<"e","x","p","o","r","t"," ","t","y","p","e"," ">>

ExportNamespace ==
  <<"e","x","p","o","r","t"," ","n","a","m","e","s","p","a","c","e"," ">>

\* " {\n" and "\n}" of the format strings
OpenBody == <<" ", "{", NL>>

CloseBody == <<NL, "}">>

\* The namespace key of a line: js_mod, or the top-level sentinel.
NamespaceKey(line) ==
  IF line.js_mod = None THEN TOP_LEVEL_NAMESPACE ELSE line.js_mod[1]

(***************************************************************************)
(* TypeDefLine::into_pretty_print                                          *)
(***************************************************************************)
\* a pretty print that writes the alias whenever original_name is present
into_pretty_print_alias_always(line, indent) ==
  LET doc == UnwrapOrDefault(line.js_doc)
      s == CASE line.kind = "Interface" ->
                  doc \o ExportInterface \o line.name \o OpenBody \o line.def
                      \o CloseBody \o <<NL, NL>>
             [] line.kind = "Enum" ->
                  doc \o ExportConstEnum \o line.name \o OpenBody \o line.def
                      \o CloseBody \o <<NL, NL>>
             [] line.kind = "Struct" ->
                  LET class == doc \o ExportClass \o line.name \o OpenBody \o line.def
                                   \o CloseBody
                  IN IF line.original_name # None
                       THEN class \o <<NL>> \o ExportType \o line.original_name[1]
                                  \o <<" ", "=", " ">> \o line.name \o <<NL, NL>>
                       ELSE class \o <<NL, NL>>
             [] OTHER -> doc \o line.def \o <<NL>>
  IN correct_str_indent(s, indent)

into_pretty_print(line, indent) ==
  LET doc == UnwrapOrDefault(line.js_doc)
      s == CASE line.kind = "Interface" ->
                  doc \o ExportInterface \o line.name \o OpenBody \o line.def
                      \o CloseBody \o <<NL, NL>>
             [] line.kind = "Enum" ->
                  doc \o ExportConstEnum \o line.name \o OpenBody \o line.def
                      \o CloseBody \o <<NL, NL>>
             [] line.kind = "Struct" ->
                  LET class == doc \o ExportClass \o line.name \o OpenBody \o line.def
                                   \o CloseBody
                  IN IF line.original_name # None /\ line.original_name[1] # line.name
                       THEN class \o <<NL>> \o ExportType \o line.original_name[1]
                                  \o <<" ", "=", " ">> \o line.name \o <<NL, NL>>
                       ELSE class \o <<NL, NL>>
             [] OTHER -> doc \o line.def \o <<NL>>
  IN correct_str_indent(s, indent)

(***************************************************************************)
(* The loader's sort (sort_by is a stable sort).                           *)
(***************************************************************************)
\* a comparator that orders every pair by name alone
CompareByName(a, b) == StrCmp(a.name, b.name)

\* The closure given to defs.sort_by.
Compare(a, b) ==
  IF a.kind = "Struct"
    THEN (IF b.kind = "Struct" THEN StrCmp(a.name, b.name) ELSE "Less")
    ELSE (IF b.kind = "Struct" THEN "Greater" ELSE StrCmp(a.name, b.name))

\* x placed after the last element of the sorted s that is not Greater than it.
RECURSIVE InsertSorted(_, _)
InsertSorted(s, x) ==
  IF s = <<>> THEN <<x>>
  ELSE IF Compare(s[Len(s)], x) = "Greater"
    THEN Append(InsertSorted(SubSeq(s, 1, Len(s) - 1), x), s[Len(s)])
    ELSE Append(s, x)

\* defs.sort_by(..): the records in Compare order, equal records in file order.
RECURSIVE SortBy(_)
SortBy(s) ==
  IF s = <<>> THEN <<>>
  ELSE InsertSorted(SortBy(SubSeq(s, 1, Len(s) - 1)), s[Len(s)])

\* IntermidiateTypeDefFile::from on a file whose non-empty lines deserialize to
\* `records`.
Load(records) == SortBy(records)

\* serde_json::from_str(line): None for Err, Some(record) for Ok.  A line of the
\* file is [empty, json]: whether it has no character, and the record its text
\* is the JSON of, if any; the text of an empty line is not JSON.
from_str(line) == line.json

\* content.lines().for_each: an empty line is skipped, a line that deserializes
\* is pushed, a line that does not panics (None).
RECURSIVE ParseLines(_, _)
ParseLines(ls, acc) ==
  IF ls = <<>> THEN Some(acc)
  ELSE IF Head(ls).empty THEN ParseLines(Tail(ls), acc)
  ELSE IF from_str(Head(ls)) = None THEN None
  ELSE ParseLines(Tail(ls), Append(acc, from_str(Head(ls))[1]))

\* a load that leaves out the lines that do not deserialize
from_skipping_malformed(content) ==
  IF content.status # "ok" THEN None
  ELSE LET parsed == ParseLines(SelectSeq(content.lines,
                                          LAMBDA l : l.empty \/ from_str(l) # None), <<>>)
       IN IF parsed = None THEN None ELSE Some(Load(parsed[1]))

\* IntermidiateTypeDefFile::from(path): None when an unwrap panics, Some(defs)
\* when the function returns.  content is [status, lines]: the outcome of
\* File::open and read_to_string, and the lines of the text read.
from(content) ==
  IF content.status # "ok" THEN None
  ELSE LET parsed == ParseLines(content.lines, <<>>)
       IN IF parsed = None THEN None ELSE Some(Load(parsed[1]))

(***************************************************************************)
(* TypeDefLine::preprocess.  namespace_groupped_lines is a function from   *)
(* namespace keys to sequences of lines; a raw pointer of class_defs is    *)
(* the place it points to: a namespace key and an index into that group.   *)
(***************************************************************************)
EmptyMap == [k \in {} |-> <<>>]

\* The key of class_defs under which a Struct is registered and an Impl looked up.
ClassKey(line) == line.name

\* an iteration that pushes an Impl without a registered Struct to its group
PreprocessStepKeepsImpl(st, line) ==
  LET key == NamespaceKey(line)
      \* entry(key).or_insert_with(..): runs for every line, whatever its kind
      entered == IF key \in DOMAIN st.groups THEN st.groups ELSE st.groups @@ (key :> <<>>)
      pushed == [entered EXCEPT ![key] = Append(@, line)]
  IN CASE line.kind = "Struct" ->
            [groups |-> pushed,
             class_defs |-> (ClassKey(line) :> [key |-> key, idx |-> Len(pushed[key])])
                              @@ st.class_defs]
       [] line.kind = "Impl" ->
            IF ClassKey(line) \in DOMAIN st.class_defs
              THEN LET prev == st.class_defs[ClassKey(line)]
                   IN [groups |-> [entered EXCEPT ![prev.key][prev.idx].def =
                                     IF @ # <<>> THEN @ \o <<NL>> \o line.def
                                                 ELSE line.def],
                       class_defs |-> st.class_defs]
              ELSE [groups |-> pushed, class_defs |-> st.class_defs]
       [] OTHER -> [groups |-> pushed, class_defs |-> st.class_defs]

\* an iteration that registers the first record of the group, not the last
PreprocessStepFirstMut(st, line) ==
  LET key == NamespaceKey(line)
      \* entry(key).or_insert_with(..): runs for every line, whatever its kind
      entered == IF key \in DOMAIN st.groups THEN st.groups ELSE st.groups @@ (key :> <<>>)
      pushed == [entered EXCEPT ![key] = Append(@, line)]
  IN CASE line.kind = "Struct" ->
            [groups |-> pushed,
             class_defs |-> (ClassKey(line) :> [key |-> key, idx |-> 1])
                              @@ st.class_defs]
       [] line.kind = "Impl" ->
            IF ClassKey(line) \in DOMAIN st.class_defs
              THEN LET prev == st.class_defs[ClassKey(line)]
                   IN [groups |-> [entered EXCEPT ![prev.key][prev.idx].def =
                                     IF @ # <<>> THEN @ \o <<NL>> \o line.def
                                                 ELSE line.def],
                       class_defs |-> st.class_defs]
              ELSE [groups |-> entered, class_defs |-> st.class_defs]
       [] OTHER -> [groups |-> pushed, class_defs |-> st.class_defs]

\* One iteration of the loop over the lines.
PreprocessStep(st, line) ==
  LET key == NamespaceKey(line)
      \* entry(key).or_insert_with(..): runs for every line, whatever its kind
      entered == IF key \in DOMAIN st.groups THEN st.groups ELSE st.groups @@ (key :> <<>>)
      pushed == [entered EXCEPT ![key] = Append(@, line)]
  IN CASE line.kind = "Struct" ->
            [groups |-> pushed,
             class_defs |-> (ClassKey(line) :> [key |-> key, idx |-> Len(pushed[key])])
                              @@ st.class_defs]
       [] line.kind = "Impl" ->
            IF ClassKey(line) \in DOMAIN st.class_defs
              THEN LET prev == st.class_defs[ClassKey(line)]
                   IN [groups |-> [entered EXCEPT ![prev.key][prev.idx].def =
                                     IF @ # <<>> THEN @ \o <<NL>> \o line.def
                                                 ELSE line.def],
                       class_defs |-> st.class_defs]
              ELSE [groups |-> entered, class_defs |-> st.class_defs]
       [] OTHER -> [groups |-> pushed, class_defs |-> st.class_defs]

RECURSIVE PreprocessFrom(_, _)
PreprocessFrom(st, lines) ==
  IF lines = <<>> THEN st
  ELSE PreprocessFrom(PreprocessStep(st, Head(lines)), Tail(lines))

\* TypeDefLine::preprocess(lines): the groups it returns.
preprocess(lines) ==
  PreprocessFrom([groups |-> EmptyMap, class_defs |-> EmptyMap], lines).groups

(***************************************************************************)
(* IntermidiateTypeDefFile::into_dts                                       *)
(***************************************************************************)
\* groups ordered with the top-level group always first
TopLevelFirst(a, b) ==
  IF a = TOP_LEVEL_NAMESPACE THEN b # TOP_LEVEL_NAMESPACE
  ELSE b # TOP_LEVEL_NAMESPACE /\ StrLess(a, b)

\* The order of groupped_lines.sort_by_key(|g| g.0.clone()).
KeyBefore(a, b) == StrLess(a, b)

\* The keys of the groups in the order the sort leaves them (keys are distinct).
RECURSIVE SortedKeys(_)
SortedKeys(keys) ==
  IF keys = {} THEN <<>>
  ELSE LET first == CHOOSE k \in keys : \A o \in keys \ {k} : KeyBefore(k, o)
       IN <<first>> \o SortedKeys(keys \ {first})

RECURSIVE PrettyPrintAll(_, _)
PrettyPrintAll(lines, indent) ==
  IF lines = <<>> THEN <<>>
  ELSE into_pretty_print(Head(lines), indent) \o PrettyPrintAll(Tail(lines), indent)

\* a loop body that prints the members of a named group at indent 0
RenderGroupFlat(namespace, lines) ==
  IF namespace = TOP_LEVEL_NAMESPACE
    THEN PrettyPrintAll(lines, 0)
    ELSE ExportNamespace \o namespace \o <<" ", "{", NL>>
           \o PrettyPrintAll(lines, 0) \o <<"}", NL>>

\* The body of the loop over the sorted groups: what one group pushes to dts.
RenderGroup(namespace, lines) ==
  IF namespace = TOP_LEVEL_NAMESPACE
    THEN PrettyPrintAll(lines, 0)
    ELSE ExportNamespace \o namespace \o <<" ", "{", NL>>
           \o PrettyPrintAll(lines, 2) \o <<"}", NL>>

RECURSIVE RenderGroups(_, _)
RenderGroups(keys, groups) ==
  IF keys = <<>> THEN <<>>
  ELSE RenderGroup(Head(keys), groups[Head(keys)]) \o RenderGroups(Tail(keys), groups)

\* a last step that strips the trailing whitespace and pushes nothing
StripTrailing(dts) == TrimEnd(dts)

\* if !dts.ends_with('\n') { dts.push('\n') }
EnsureTrailingNewline(dts) == IF ~EndsWith(dts, NL) THEN Append(dts, NL) ELSE dts

\* The text dts starts as: the header if asked for, then the ExternalObject class.
DtsStart(with_header) ==
  (IF with_header THEN TYPE_DEF_HEADER ELSE <<>>) \o EXTERNAL_OBJECT_PREAMBLE

Ok(text) == [ok |-> TRUE, text |-> text, err |-> ""]

Err(msg) == [ok |-> FALSE, text |-> <<>>, err |-> msg]

\* into_dts from the sorted groups on: the loop over the groups and the last check.
EmitGroups(dts, groups) ==
  EnsureTrailingNewline(dts \o RenderGroups(SortedKeys(DOMAIN groups), groups))

into_dts(defs, with_header) ==
  IF defs = <<>> THEN Err("No type definitions found")
  ELSE Ok(EmitGroups(DtsStart(with_header), preprocess(defs)))

(***************************************************************************)
(* The inputs of the model.                                                *)
(***************************************************************************)
\* The records a line of the intermediate file deserializes to: two names, the
\* top-level namespace and one named namespace on either side of the sentinel
\* key in byte order ("A" < "__TOP_LEVEL__" < "a"), every kind, a Struct with
\* an empty def, Structs with an alias, a doc comment with "*" lines, a record
\* whose js_mod is the sentinel key itself.
DocComment == <<"/", "*", "*", NL, "*", " ", "d", NL, "*", "/", NL>>

Records ==
  { TypeDefLine("Struct", <<"X">>, None, <<"a">>, None, None),
    TypeDefLine("Struct", <<"Y">>, Some(<<"Y">>), <<>>, None, None),
    TypeDefLine("Struct", <<"X">>, Some(<<"Z">>), <<"b">>, None, Some(<<"a">>)),
    TypeDefLine("Impl", <<"X">>, None, <<"m">>, None, None),
    TypeDefLine("Impl", <<"X">>, None, <<"n">>, None, None),
    TypeDefLine("Impl", <<"X">>, None, <<"n">>, None, Some(<<"a">>)),
    TypeDefLine("Impl", <<"Y">>, None, <<"m">>, None, Some(<<"A">>)),
    TypeDefLine("Const", <<"Y">>, None, <<"c">>, None, None),
    TypeDefLine("Const", <<"X">>, None, <<"c">>, None, Some(TOP_LEVEL_NAMESPACE)),
    TypeDefLine("Fn", <<"X">>, None, <<"f">>, Some(DocComment), Some(<<"A">>)),
    TypeDefLine("Enum", <<"X">>, None, <<"e">>, None, Some(<<"a">>)),
    TypeDefLine("Interface", <<"Y">>, None, <<"i">>, None, None) }

SeqsUpTo(S, n) == UNION {[1..k -> S] : k \in 0..n}

\* The lines a file may hold: the empty line, a line that is not the JSON of a
\* record, and the JSON of each record.
EmptyLine == [empty |-> TRUE, json |-> None]

MalformedLine == [empty |-> FALSE, json |-> None]

RawLines ==
  {EmptyLine, MalformedLine} \cup {[empty |-> FALSE, json |-> Some(r)] : r \in Records}

\* A file that opens and reads, with its lines; one that does not open; one that
\* opens and does not read.
Contents ==
  {[status |-> "ok", lines |-> ls] : ls \in SeqsUpTo(RawLines, MaxRecords)}
    \cup {[status |-> st, lines |-> <<>>] : st \in {"open_err", "read_err"}}

NoContent == [status |-> "ok", lines |-> <<>>]

\* The characters of the texts drawn character by character.
Alphabet == {SP, NL, "a", "{", "}", "*"}

\* The lines of the texts drawn line by line.
LineSet ==
  { <<>>, <<SP, "a">>, <<"a", SP, "{">>, <<"}">>, <<"*", SP, "{">> }

\* The texts given to correct_str_indent.
Texts ==
  SeqsUpTo(Alphabet, MaxLen)
    \cup { Join(ls, <<NL>>) \o tail : ls \in SeqsUpTo(LineSet, MaxLines), tail \in {<<>>, <<NL>>} }

(***************************************************************************)
(* State.                                                                  *)
(***************************************************************************)
VARIABLES
  pc,          \* where the run is
  file,        \* the records of the non-empty lines of the file, in file order
  defs,        \* IntermidiateTypeDefFile.defs
  with_header, \* the argument of into_dts
  lines,       \* preprocess: the lines the loop has not visited yet
  namespace_groupped_lines, \* preprocess: the groups
  class_defs,  \* preprocess: name -> place of the Struct last registered
  dts,         \* the result of into_dts
  src,         \* correct_str_indent: the text given
  indent,      \* correct_str_indent: the base indent given
  once,        \* correct_str_indent(src, indent)
  twice,       \* correct_str_indent(once, indent)
  content      \* from: what the path gives, [status, lines]

vars ==
  <<pc, file, defs, with_header, lines, namespace_groupped_lines, class_defs, dts,
    src, indent, once, twice, content>>

pipelineVars ==
  <<file, defs, with_header, lines, namespace_groupped_lines, class_defs, dts>>

indentVars == <<src, indent, once, twice>>

(***************************************************************************)
(* Load, then into_dts: the pipeline.                                      *)
(***************************************************************************)
Init ==
  /\ pc = "file"
  /\ file \in SeqsUpTo(Records, MaxRecords)
  /\ defs = <<>>
  /\ with_header = FALSE
  /\ lines = <<>>
  /\ namespace_groupped_lines = EmptyMap
  /\ class_defs = EmptyMap
  /\ dts = Ok(<<>>)
  /\ src = <<>> /\ indent = 0 /\ once = <<>> /\ twice = <<>>
  /\ content = NoContent

\* IntermidiateTypeDefFile::from(path)
LoadFile ==
  /\ pc = "file"
  /\ defs' = Load(file)
  /\ pc' = "loaded"
  /\ UNCHANGED <<file, with_header, lines, namespace_groupped_lines, class_defs, dts>>
  /\ UNCHANGED <<indentVars, content>>

\* into_dts without the check of an empty record set: header and preamble alone
IntoDtsEmptyUnchecked ==
  /\ pc = "loaded"
  /\ defs = <<>>
  /\ \E h \in BOOLEAN :
       /\ with_header' = h
       /\ dts' = Ok(EmitGroups(DtsStart(h), preprocess(defs)))
  /\ pc' = "done"
  /\ UNCHANGED <<file, defs, lines, namespace_groupped_lines, class_defs>>
  /\ UNCHANGED <<indentVars, content>>

\* into_dts on an empty record set: the error, and nothing else.
IntoDtsEmpty ==
  /\ pc = "loaded"
  /\ defs = <<>>
  /\ \E h \in BOOLEAN : with_header' = h
  /\ dts' = Err("No type definitions found")
  /\ pc' = "done"
  /\ UNCHANGED <<file, defs, lines, namespace_groupped_lines, class_defs>>
  /\ UNCHANGED <<indentVars, content>>

\* into_dts up to the call of preprocess: dts is the header and the preamble.
IntoDtsBegin ==
  /\ pc = "loaded"
  /\ defs # <<>>
  /\ \E h \in BOOLEAN :
       /\ with_header' = h
       /\ dts' = Ok(DtsStart(h))
  /\ lines' = defs
  /\ namespace_groupped_lines' = EmptyMap
  /\ class_defs' = EmptyMap
  /\ pc' = "preprocess"
  /\ UNCHANGED <<file, defs>>
  /\ UNCHANGED <<indentVars, content>>

\* One iteration of the loop of preprocess: the state after the match.
PreprocessLine ==
  /\ LET st == PreprocessStep([groups |-> namespace_groupped_lines,
                               class_defs |-> class_defs], Head(lines))
     IN /\ namespace_groupped_lines' = st.groups
        /\ class_defs' = st.class_defs
  /\ lines' = Tail(lines)
  /\ UNCHANGED <<pc, file, defs, with_header, dts>>
  /\ UNCHANGED <<indentVars, content>>

\* TypeDefKind::Struct => the line is pushed and registered in class_defs.
PreprocessStruct ==
  /\ pc = "preprocess"
  /\ lines # <<>>
  /\ Head(lines).kind = "Struct"
  /\ PreprocessLine

\* TypeDefKind::Impl => the def is pushed to the registered Struct, if any.
PreprocessImpl ==
  /\ pc = "preprocess"
  /\ lines # <<>>
  /\ Head(lines).kind = "Impl"
  /\ PreprocessLine

\* _ => the line is pushed.
PreprocessOther ==
  /\ pc = "preprocess"
  /\ lines # <<>>
  /\ Head(lines).kind \notin {"Struct", "Impl"}
  /\ PreprocessLine

\* into_dts after preprocess: the groups sorted by key and rendered, the last check.
IntoDtsEmit ==
  /\ pc = "preprocess"
  /\ lines = <<>>
  /\ dts' = Ok(EmitGroups(dts.text, namespace_groupped_lines))
  /\ pc' = "done"
  /\ UNCHANGED <<file, defs, with_header, lines, namespace_groupped_lines, class_defs>>
  /\ UNCHANGED <<indentVars, content>>

Next ==
  \/ LoadFile
  \/ IntoDtsEmpty
  \/ IntoDtsBegin
  \/ PreprocessStruct
  \/ PreprocessImpl
  \/ PreprocessOther
  \/ IntoDtsEmit

Spec == Init /\ [][Next]_vars

(***************************************************************************)
(* correct_str_indent on its own, and on its own output.                   *)
(***************************************************************************)
InitIndent ==
  /\ pc = "text"
  /\ src \in Texts
  /\ indent \in 0..MaxIndent
  /\ once = <<>> /\ twice = <<>>
  /\ file = <<>> /\ defs = <<>> /\ with_header = FALSE /\ lines = <<>>
  /\ namespace_groupped_lines = EmptyMap /\ class_defs = EmptyMap /\ dts = Ok(<<>>)
  /\ content = NoContent

Indent ==
  /\ pc = "text"
  /\ once' = correct_str_indent(src, indent)
  /\ pc' = "indented"
  /\ UNCHANGED <<src, indent, twice>>
  /\ UNCHANGED <<pipelineVars, content>>

IndentAgain ==
  /\ pc = "indented"
  /\ twice' = correct_str_indent(once, indent)
  /\ pc' = "reindented"
  /\ UNCHANGED <<src, indent, once>>
  /\ UNCHANGED <<pipelineVars, content>>

NextIndent == Indent \/ IndentAgain

SpecIndent == InitIndent /\ [][NextIndent]_vars

(***************************************************************************)
(* IntermidiateTypeDefFile::from on a path, whatever the file holds.       *)
(***************************************************************************)
InitLoad ==
  /\ pc = "path"
  /\ content \in Contents
  /\ defs = <<>>
  /\ file = <<>> /\ with_header = FALSE /\ lines = <<>>
  /\ namespace_groupped_lines = EmptyMap /\ class_defs = EmptyMap /\ dts = Ok(<<>>)
  /\ src = <<>> /\ indent = 0 /\ once = <<>> /\ twice = <<>>

\* from returns IntermidiateTypeDefFile { defs }.
FromReturns ==
  /\ pc = "path"
  /\ from(content) # None
  /\ defs' = from(content)[1]
  /\ pc' = "loaded"
  /\ UNCHANGED <<file, with_header, lines, namespace_groupped_lines, class_defs, dts>>
  /\ UNCHANGED <<indentVars, content>>

\* an unwrap of from panics: nothing is returned.
FromPanics ==
  /\ pc = "path"
  /\ from(content) = None
  /\ pc' = "panicked"
  /\ UNCHANGED <<pipelineVars, indentVars, content>>

NextLoad == FromReturns \/ FromPanics

SpecLoad == InitLoad /\ [][NextLoad]_vars

(***************************************************************************)
(* Properties of the merge step, the sort and the emitter.                 *)
(***************************************************************************)
Groups == namespace_groupped_lines

\* into_dts has returned text.
Emitted == pc = "done" /\ dts.ok

\* The file without its i-th record.
RemoveAt(f, i) == SubSeq(f, 1, i - 1) \o SubSeq(f, i + 1, Len(f))

\* The file with its i-th and (i+1)-th records exchanged.
SwapAt(f, i) == [j \in 1..Len(f) |-> IF j = i THEN f[i + 1] ELSE IF j = i + 1 THEN f[i] ELSE f[j]]

\* The records of f that satisfy Test, in file order.
RECURSIVE SelectDefs(_, _, _, _)
SelectDefs(f, kind, name, key) ==
  IF f = <<>> THEN <<>>
  ELSE (IF Head(f).kind = kind /\ Head(f).name = name /\ NamespaceKey(Head(f)) = key
          THEN <<Head(f).def>> ELSE <<>>)
       \o SelectDefs(Tail(f), kind, name, key)

\* C1: in the merge step an Impl is folded only into a Struct of its own name
\* and its own namespace group: the step that visits an Impl leaves the def of
\* every same-named Struct of another namespace group as it was.
C1_ImplStaysInItsNamespace ==
  [][ (pc = "preprocess" /\ lines # <<>> /\ Head(lines).kind = "Impl")
        => \A k \in DOMAIN Groups : \A i \in 1..Len(Groups[k]) :
             ( /\ Groups[k][i].kind = "Struct"
               /\ Groups[k][i].name = Head(lines).name
               /\ k # NamespaceKey(Head(lines)) )
             => Groups'[k][i].def = Groups[k][i].def ]_vars

\* The i-th record of f is an Impl whose namespace holds no Struct of its name.
DanglingImpl(f, i) ==
  /\ f[i].kind = "Impl"
  /\ \A j \in 1..Len(f) :
       ~(f[j].kind = "Struct" /\ f[j].name = f[i].name
           /\ NamespaceKey(f[j]) = NamespaceKey(f[i]))

\* C2: an Impl whose namespace holds no Struct of its name contributes nothing:
\* for a file of at least two records the text is the text of the file without
\* that Impl.
C2_DanglingImplContributesNothing ==
  (Emitted /\ Len(file) >= 2)
    => \A i \in 1..Len(file) :
         DanglingImpl(file, i) => into_dts(Load(RemoveAt(file, i)), with_header) = dts

\* C3: the class body of the Struct named X of namespace N is the Struct's def
\* followed by the def of each Impl named X of namespace N, in file order,
\* joined with newlines.
C3_ClassBodyIsStructThenImpls ==
  Emitted
    => \A k \in DOMAIN Groups : \A i \in 1..Len(Groups[k]) :
         LET name == Groups[k][i].name
             own == SelectDefs(file, "Struct", name, k)
         IN (Groups[k][i].kind = "Struct" /\ Len(own) = 1)
              => Groups[k][i].def = Join(own \o SelectDefs(file, "Impl", name, k), <<NL>>)

\* C4 as stated: two Structs of a group are in the order a before b iff
\* a.name < b.name, Structs come before the other kinds, the other kinds are in
\* ascending name order.
C4_GroupOrderIff ==
  \A k \in DOMAIN Groups : \A i, j \in 1..Len(Groups[k]) :
    LET a == Groups[k][i]
        b == Groups[k][j]
    IN /\ (i # j /\ a.kind = "Struct" /\ b.kind = "Struct")
            => (i < j <=> StrLess(a.name, b.name))
       /\ (a.kind = "Struct" /\ b.kind # "Struct") => i < j
       /\ (i < j /\ a.kind # "Struct" /\ b.kind # "Struct")
            => StrCmp(a.name, b.name) # "Greater"

\* C4: in every group, at every step of the merge and after it, a Struct a
\* comes before a Struct b whenever a.name < b.name (Structs of equal names stay
\* in file order), every Struct comes before every record of another kind, and
\* the records of the other kinds are in ascending name order.
C4_GroupOrder ==
  \A k \in DOMAIN Groups : \A i, j \in 1..Len(Groups[k]) :
    LET a == Groups[k][i]
        b == Groups[k][j]
    IN /\ (a.kind = "Struct" /\ b.kind = "Struct" /\ StrLess(a.name, b.name)) => i < j
       /\ (a.kind = "Struct" /\ b.kind # "Struct") => i < j
       /\ (i < j /\ a.kind # "Struct" /\ b.kind # "Struct")
            => StrCmp(a.name, b.name) # "Greater"

\* A merged group of two Structs of different names and a record of another
\* kind, from a file that the sort had to reorder.
C4_Witness ==
  /\ Emitted
  /\ defs # file
  /\ \E k \in DOMAIN Groups : \E i, j, n \in 1..Len(Groups[k]) :
       /\ Groups[k][i].kind = "Struct" /\ Groups[k][j].kind = "Struct"
       /\ StrLess(Groups[k][i].name, Groups[k][j].name)
       /\ Groups[k][n].kind # "Struct"

\* C5: two files of the same records in another line order, Impls of one name
\* keeping their relative order, give the same text: exchanging two adjacent
\* lines that are not two Impls of one name does not change the text.
C5_FileOrderDoesNotMatter ==
  Emitted
    => \A i \in 1..(Len(file) - 1) :
         ~(file[i].kind = "Impl" /\ file[i + 1].kind = "Impl"
             /\ file[i].name = file[i + 1].name)
           => into_dts(Load(SwapAt(file, i)), with_header) = dts

RECURSIVE SplitNL(_)
SplitNL(s) ==
  IF \A i \in 1..Len(s) : s[i] # NL THEN <<s>>
  ELSE LET i == CHOOSE j \in 1..Len(s) : s[j] = NL /\ \A k \in 1..(j - 1) : s[k] # NL
       IN <<SubSeq(s, 1, i - 1)>> \o SplitNL(SubSeq(s, i + 1, Len(s)))

\* The text without the spaces at its end.
RECURSIVE StripSpaces(_)
StripSpaces(s) ==
  IF s # <<>> /\ s[Len(s)] = SP THEN StripSpaces(SubSeq(s, 1, Len(s) - 1)) ELSE s

\* C7: correct_str_indent is idempotent: applied to its own output with the
\* same base indent it returns that output.
C7_Idempotent == pc = "reindented" => twice = once

\* A text that the first application changed, at a base indent above 0.
C7_Witness == pc = "reindented" /\ once # src /\ indent > 0 /\ twice = once

\* C8 as stated: the output ends with a newline iff the input does.
C8_TrailingNewlineIff == pc # "text" => (EndsWith(once, NL) <=> EndsWith(src, NL))

\* C8: the output ends with a newline iff the input ends with a newline or
\* with a newline followed only by spaces (a whitespace-only last line after
\* at least one other line).
C8_TrailingNewline ==
  pc # "text" => (EndsWith(once, NL) <=> EndsWith(StripSpaces(src), NL))

\* An input whose last line is whitespace-only and unterminated, after a line
\* that is not blank: the output ends with the newline before that last line.
C8_Witness ==
  /\ pc = "indented"
  /\ EndsWith(src, SP) /\ EndsWith(StripSpaces(src), NL)
  /\ EndsWith(once, NL) /\ Len(once) > 1

\* The lines among the first n of ls that satisfy Test.
Count(ls, Test(_), n) == Cardinality({j \in 1..n : j <= Len(ls) /\ Test(ls[j])})

\* Opening and closing lines as C9 states them: by the last character alone.
EndsOpen(l) == EndsWith(Trim(l), "{")

EndsClose(l) == EndsWith(Trim(l), "}")

\* Opening and closing lines that are not lines of a multi-line comment.
IsComment(l) == StartsWith(Trim(l), "*")

Opens(l) == EndsOpen(l) /\ ~IsComment(l)

Closes(l) == EndsClose(l) /\ ~IsComment(l)

\* No line closes a block that is not open, and every block is closed.
Balanced(ls, O(_), C(_)) ==
  /\ \A n \in 1..Len(ls) : Count(ls, O, n) >= Count(ls, C, n)
  /\ Count(ls, O, Len(ls)) = Count(ls, C, Len(ls))

\* The blocks open around line i: an opening line does not count itself, a
\* closing line is outside the block it closes.
BlocksAround(ls, O(_), C(_), i) == Count(ls, O, i - 1) - Count(ls, C, i)

\* C9 as stated: on a text of balanced nesting every non-blank output line is
\* the trimmed input line after base_indent + 2*d spaces, blank lines become
\* empty, the number and the order of the lines are unchanged.
C9_IndentFromNestingAlone ==
  LET in == SplitNL(src)
      out == SplitNL(once)
  IN (pc # "text" /\ Balanced(in, EndsOpen, EndsClose))
       => /\ Len(out) = Len(in)
          /\ \A i \in 1..Len(in) :
               out[i] = IF Trim(in[i]) = <<>> THEN <<>>
                        ELSE Repeat(SP, indent + 2 * BlocksAround(in, EndsOpen, EndsClose, i))
                               \o Trim(in[i])

\* C9: a line whose trimmed text begins with "*" neither opens nor closes a
\* block and gets one space more; for the rest the statement stands: on a text
\* of balanced nesting every non-blank output line is the trimmed input line
\* after base_indent + 2*d spaces (+ 1 for a "*" line), blank lines become
\* empty, the number and the order of the lines are unchanged.
C9_IndentFromNesting ==
  LET in == SplitNL(src)
      out == SplitNL(once)
  IN (pc # "text" /\ Balanced(in, Opens, Closes))
       => /\ Len(out) = Len(in)
          /\ \A i \in 1..Len(in) :
               out[i] = IF Trim(in[i]) = <<>> THEN <<>>
                        ELSE Repeat(SP, indent + 2 * BlocksAround(in, Opens, Closes, i)
                                          + (IF IsComment(in[i]) THEN 1 ELSE 0))
                               \o Trim(in[i])

\* A balanced text with a line inside a block inside a block, whose leading
\* whitespace the normalizer had to change.
C9_Witness ==
  LET in == SplitNL(src)
  IN /\ pc = "indented"
     /\ Balanced(in, Opens, Closes)
     /\ once # src
     /\ \E i \in 1..Len(in) :
          /\ Trim(in[i]) # <<>> /\ ~Opens(in[i]) /\ ~Closes(in[i])
          /\ BlocksAround(in, Opens, Closes, i) = 2

(***************************************************************************)
(* The layout of the text of into_dts.                                     *)
(***************************************************************************)
\* The keys of the groups in ascending byte order.
AscendingKeys ==
  CHOOSE q \in [1..Cardinality(DOMAIN Groups) -> DOMAIN Groups] :
    \A i, j \in DOMAIN q : i < j => StrLess(q[i], q[j])

\* The members of a group, each pretty-printed at the group's indent, in group
\* order; a named group between its "export namespace <key> {" and "}" lines.
GroupText(k) ==
  LET members == Concat([i \in 1..Len(Groups[k]) |->
                           into_pretty_print(Groups[k][i],
                                             IF k = TOP_LEVEL_NAMESPACE THEN 0 ELSE 2)])
  IN IF k = TOP_LEVEL_NAMESPACE THEN members
     ELSE ExportNamespace \o k \o <<" ", "{", NL>> \o members \o <<"}", NL>>

\* C10: the text is the header iff with_header, then the ExternalObject
\* preamble once, then the groups in ascending byte order of their keys (the
\* top-level group where its sentinel key sorts), each group's members in
\* group order.
C10_Layout ==
  Emitted
    => dts.text = (IF with_header THEN TYPE_DEF_HEADER ELSE <<>>)
                    \o EXTERNAL_OBJECT_PREAMBLE
                    \o Concat([i \in 1..Cardinality(DOMAIN Groups) |-> GroupText(AscendingKeys[i])])

\* A text with a header, a named namespace before the top-level members and a
\* named namespace after them.
C10_Witness ==
  /\ Emitted
  /\ with_header
  /\ \E a, b \in DOMAIN Groups :
       /\ StrLess(a, TOP_LEVEL_NAMESPACE) /\ StrLess(TOP_LEVEL_NAMESPACE, b)
       /\ TOP_LEVEL_NAMESPACE \in DOMAIN Groups
       /\ Groups[a] # <<>> /\ Groups[b] # <<>> /\ Groups[TOP_LEVEL_NAMESPACE] # <<>>

(***************************************************************************)
(* Namespace blocks in the text of into_dts.                               *)
(***************************************************************************)
IsPrefix(p, t) == Len(p) <= Len(t) /\ SubSeq(t, 1, Len(p)) = p

\* The line that opens the block of namespace k.
NamespaceLine(k) == ExportNamespace \o k \o <<" ", "{">>

\* The lines of ol, the lines of the text, that open a block of namespace k.
BlockOpens(ol, k) == {i \in 1..Len(ol) : ol[i] = NamespaceLine(k)}

\* Line j is the first "}" line after line i: the end of the block opened at i.
ClosesBlock(ol, i, j) ==
  /\ i < j /\ j <= Len(ol)
  /\ ol[j] = <<"}">>
  /\ \A n \in (i + 1)..(j - 1) : ol[n] # <<"}">>

\* The lines a..b hold, somewhere, the lines ls.
HeldWithin(ol, ls, a, b) ==
  \E start \in a..b :
    /\ start + Len(ls) - 1 <= b
    /\ \A n \in 1..Len(ls) : ol[start + n - 1] = ls[n]

\* Member m is rendered at base indent 2 inside a block of namespace k whose
\* non-blank lines all start with two spaces.
InsideBlock(ol, m, k) ==
  LET ls == Lines(into_pretty_print(m, 2))
  IN \E i \in BlockOpens(ol, k) : \E j \in (i + 1)..Len(ol) :
       /\ ClosesBlock(ol, i, j)
       /\ HeldWithin(ol, ls, i + 1, j - 1)
       /\ \A n \in (i + 1)..(j - 1) : ol[n] # <<>> => IsPrefix(<<SP, SP>>, ol[n])

\* Line n lies in a namespace block: after an opening line, no "}" line since.
InSomeBlock(ol, n) ==
  \E i \in 1..(n - 1) :
    /\ IsPrefix(ExportNamespace, ol[i])
    /\ \A j \in (i + 1)..n : ol[j] # <<"}">>

\* Member m is rendered at base indent 0 on lines that lie in no block.
OutsideBlocks(ol, m) ==
  LET ls == Lines(into_pretty_print(m, 0))
  IN \E start \in 1..Len(ol) :
       /\ start + Len(ls) - 1 <= Len(ol)
       /\ \A n \in 1..Len(ls) : ol[start + n - 1] = ls[n]
       /\ \A n \in 1..Len(ls) : ~InSomeBlock(ol, start + n - 1)

\* The members of the groups: the records that are emitted.
Members == UNION {{Groups[k][n] : n \in 1..Len(Groups[k])} : k \in DOMAIN Groups}

\* C11 as stated: every emitted record with a namespace value, whatever the
\* key, is rendered in a block "export namespace <key> {" .. "}" at base indent
\* 2, every record without one outside any block at base indent 0, and each
\* namespace key yields exactly one block.
C11_EveryNamespaceValueWrapped ==
  LET ol == SplitNL(dts.text)
  IN Emitted
       => /\ \A m \in Members :
               IF m.js_mod # None THEN InsideBlock(ol, m, m.js_mod[1])
                                  ELSE OutsideBlocks(ol, m)
          /\ \A i \in 1..Len(defs) :
               defs[i].js_mod # None => Cardinality(BlockOpens(ol, defs[i].js_mod[1])) = 1

\* C11: every emitted record whose namespace value is not the sentinel key
\* "__TOP_LEVEL__" is rendered in a block "export namespace <key> {" .. "}" at
\* base indent 2, its non-blank lines indented by at least 2 spaces; every
\* record without a namespace value (or with the sentinel key as its value) is
\* rendered outside any block at base indent 0; each namespace key other than
\* the sentinel yields exactly one block, the sentinel key none.
C11_NamespaceWrapped ==
  LET ol == SplitNL(dts.text)
  IN Emitted
       => /\ \A m \in Members :
               IF NamespaceKey(m) # TOP_LEVEL_NAMESPACE
                 THEN InsideBlock(ol, m, NamespaceKey(m)) ELSE OutsideBlocks(ol, m)
          /\ \A k \in DOMAIN Groups :
               Cardinality(BlockOpens(ol, k)) = IF k # TOP_LEVEL_NAMESPACE THEN 1 ELSE 0

\* A text with a block of several lines, a member outside any block after it,
\* and two records of the block's namespace.
C11_Witness ==
  /\ Emitted
  /\ \E k \in DOMAIN Groups :
       /\ k # TOP_LEVEL_NAMESPACE /\ StrLess(k, TOP_LEVEL_NAMESPACE)
       /\ Len(Groups[k]) >= 1
       /\ Cardinality({i \in 1..Len(defs) : NamespaceKey(defs[i]) = k}) >= 2
  /\ TOP_LEVEL_NAMESPACE \in DOMAIN Groups
  /\ \E m \in Members : m.js_mod = None

(***************************************************************************)
(* The result of into_dts.                                                 *)
(***************************************************************************)
\* C12: into_dts fails with "No type definitions found" exactly when the
\* record set is empty, and then produces no text at all (no header, no
\* preamble); for every non-empty record set it returns text.
C12_EmptyInputError ==
  pc = "done"
    => /\ ~dts.ok <=> defs = <<>>
       /\ ~dts.ok => (dts.err = "No type definitions found" /\ dts.text = <<>>)
       /\ dts.ok => (dts.err = "" /\ IsPrefix(DtsStart(with_header), dts.text))

\* into_dts called with with_header = true on an empty record set.
C12_Witness == pc = "done" /\ defs = <<>> /\ with_header /\ ~dts.ok

(***************************************************************************)
(* The rendering of a Struct.                                              *)
(***************************************************************************)
\* The Struct has an original_name that differs from its name.
HasAlias(m) == m.original_name # None /\ m.original_name[1] # m.name

\* The shape of the rendering t of Struct m at base indent ind: the line
\* "export class X {", later the line "}", then the line "export type Y = X"
\* iff the Struct has an alias, then one blank line and nothing more.
StructShape(m, ind, t) ==
  LET ls == Lines(t)
      n == Len(ls)
      pad == Repeat(SP, ind)
      close == IF HasAlias(m) THEN n - 2 ELSE n - 1
  IN /\ n >= 4
     /\ Len(t) >= 3 /\ t[Len(t)] = NL /\ t[Len(t) - 1] = NL /\ t[Len(t) - 2] # NL
     /\ ls[n] = <<>>
     /\ ls[close] = pad \o <<"}">>
     /\ \E i \in 1..(close - 1) : ls[i] = pad \o ExportClass \o m.name \o <<" ", "{">>
     /\ HasAlias(m)
          => ls[n - 1] = pad \o ExportType \o m.original_name[1] \o <<" ", "=", " ">> \o m.name
     /\ ~HasAlias(m) => \A i \in 1..n : ~IsPrefix(pad \o ExportType, ls[i])

\* C13: a Struct with name X and original_name Y # X is emitted as
\* "export class X {" .. "}" immediately followed by the line
\* "export type Y = X"; a Struct whose original_name is absent or equal to its
\* name emits no "export type" line; either rendering ends with one blank line.
C13_StructAlias ==
  LET ol == SplitNL(dts.text)
  IN Emitted
       => \A k \in DOMAIN Groups : \A i \in 1..Len(Groups[k]) :
            LET m == Groups[k][i]
                ind == IF k = TOP_LEVEL_NAMESPACE THEN 0 ELSE 2
                t == into_pretty_print(m, ind)
            IN m.kind = "Struct"
                 => StructShape(m, ind, t) /\ HeldWithin(ol, Lines(t), 1, Len(ol))

\* A text with a Struct that has an alias and a Struct whose original_name is
\* its name.
C13_Witness ==
  /\ Emitted
  /\ \E m \in Members : m.kind = "Struct" /\ HasAlias(m)
  /\ \E m \in Members : m.kind = "Struct" /\ m.original_name = Some(m.name)

(***************************************************************************)
(* Loading.                                                                *)
(***************************************************************************)
\* The places of the non-empty lines of the file.
NonEmptyLines == {i \in DOMAIN content.lines : ~content.lines[i].empty}

\* The file cannot be read, or one of its non-empty lines does not deserialize.
LoadFails ==
  \/ content.status # "ok"
  \/ \E i \in NonEmptyLines : from_str(content.lines[i]) = None

\* C14: loading is all-or-nothing.  Empty lines are skipped and every non-empty
\* line is deserialized; a non-empty line that does not deserialize, or a file
\* that cannot be opened or read, aborts the load and no record set is
\* returned; a load that completes holds exactly one record per non-empty line.
C14_LoadAllOrNothing ==
  /\ pc \in {"path", "loaded", "panicked"}
  /\ pc = "panicked" => LoadFails /\ defs = <<>>
  /\ pc = "loaded"
       => /\ ~LoadFails
          /\ Len(defs) = Cardinality(NonEmptyLines)
          /\ \A r \in Records :
               Cardinality({j \in DOMAIN defs : defs[j] = r})
                 = Cardinality({i \in NonEmptyLines : from_str(content.lines[i]) = Some(r)})

\* A load aborted by a malformed line that follows an empty line and a line that
\* deserializes.
C14_Witness ==
  /\ pc = "panicked"
  /\ content.status = "ok"
  /\ Len(content.lines) = 3
  /\ content.lines[1] = EmptyLine
  /\ from_str(content.lines[2]) # None
  /\ content.lines[3] = MalformedLine

(***************************************************************************)
(* What preprocess keeps.                                                  *)
(***************************************************************************)
\* preprocess has visited every line.
AfterPreprocess ==
  \/ pc = "preprocess" /\ lines = <<>>
  \/ Emitted

\* A record without the one field preprocess may write.
Mask(r) == IF r.kind = "Struct" THEN [r EXCEPT !.def = <<>>] ELSE r

MaskAll(rs) == [i \in DOMAIN rs |-> Mask(rs[i])]

\* The records given to preprocess that are not Impl and have namespace key k.
Kept(k) == SelectSeq(defs, LAMBDA r : r.kind # "Impl" /\ NamespaceKey(r) = k)

HasImpl(name) == \E j \in DOMAIN defs : defs[j].kind = "Impl" /\ defs[j].name = name

\* C15: after preprocess every record that is not an Impl is once in the group
\* of its namespace key (the top-level key when it has no namespace), no group
\* holds an Impl, and no field of a record differs from the input but the def
\* of a Struct that Impl records contributed to.
C15_MergeConservesRecords ==
  AfterPreprocess
    => /\ \A j \in DOMAIN defs :
            defs[j].kind # "Impl" => NamespaceKey(defs[j]) \in DOMAIN Groups
       /\ \A k \in DOMAIN Groups :
            /\ MaskAll(Groups[k]) = MaskAll(Kept(k))
            /\ \A i \in DOMAIN Groups[k] :
                 /\ Groups[k][i].kind # "Impl"
                 /\ Groups[k][i].kind = "Struct"
                      => /\ IsPrefix(Kept(k)[i].def, Groups[k][i].def)
                         /\ ~HasImpl(Groups[k][i].name) => Groups[k][i].def = Kept(k)[i].def

\* preprocess has merged an Impl into a Struct, pushed a record of another
\* kind, and dropped an Impl.
C15_Witness ==
  /\ AfterPreprocess
  /\ \E k \in DOMAIN Groups : \E i \in DOMAIN Groups[k] :
       Groups[k][i].kind = "Struct" /\ Groups[k][i].def # Kept(k)[i].def
  /\ \E m \in Members : m.kind # "Struct"
  /\ \E j \in DOMAIN defs : defs[j].kind = "Impl"

(***************************************************************************)
(* The pointers of class_defs.                                             *)
(***************************************************************************)
\* let max_group_size = lines.len(): the capacity every group is created with.
max_group_size == Len(defs)

\* Every entry of class_defs points at a Struct of that name in a group, and no
\* group is longer than its capacity.
TargetsValid ==
  /\ \A name \in DOMAIN class_defs :
       LET prev == class_defs[name]
       IN /\ prev.key \in DOMAIN Groups
          /\ prev.idx \in 1..Len(Groups[prev.key])
          /\ Groups[prev.key][prev.idx].kind = "Struct"
          /\ Groups[prev.key][prev.idx].name = name
  /\ \A k \in DOMAIN Groups : Len(Groups[k]) <= max_group_size

\* A step of preprocess leaves every record of every group at its place, and
\* every entry of class_defs in the registry.
TargetsStay ==
  pc = "preprocess"
    => /\ \A k \in DOMAIN Groups :
            /\ k \in DOMAIN Groups'
            /\ \A i \in DOMAIN Groups[k] :
                 /\ i \in DOMAIN Groups'[k]
                 /\ Mask(Groups'[k][i]) = Mask(Groups[k][i])
       /\ \A name \in DOMAIN class_defs : name \in DOMAIN class_defs'

\* C17: at every step of preprocess each entry of class_defs refers to a Struct
\* of that name that is in a group, no group holds more records than the
\* capacity it was created with (the number of input records), and no step
\* moves a record of a group or drops an entry.
C17_MergeTargetsValid == []TargetsValid /\ [][TargetsStay]_vars

\* Two Structs are registered in one group and an Impl of a registered name is
\* the next line.
C17_Witness ==
  /\ pc = "preprocess"
  /\ lines # <<>>
  /\ Head(lines).kind = "Impl"
  /\ Head(lines).name \in DOMAIN class_defs
  /\ \E n1, n2 \in DOMAIN class_defs :
       /\ n1 # n2
       /\ class_defs[n1].key = class_defs[n2].key

(***************************************************************************)
(* The brace depth of correct_str_indent.                                  *)
(***************************************************************************)
\* The depth after each line of ls, met at depth d: a line that opens adds one,
\* a line that closes takes one off a depth above 0, a blank line and a "*"
\* line leave it.
RECURSIVE DepthsFrom(_, _)
DepthsFrom(ls, d) ==
  IF ls = <<>> THEN <<>>
  ELSE LET l == Trim(Head(ls))
           d2 == IF l = <<>> \/ StartsWith(l, "*") THEN d
                 ELSE IF EndsWith(l, "{") THEN d + 1
                 ELSE IF EndsWith(l, "}") /\ d > 0 THEN d - 1
                 ELSE d
       IN <<d2>> \o DepthsFrom(Tail(ls), d2)

\* The depth after the first n lines of ls.
DepthAfter(ls, n) == IF n = 0 THEN 0 ELSE DepthsFrom(ls, 0)[n]

\* The lines of the output that the lines of the input became.
Mapped(in, text) == IF in = <<>> THEN <<>> ELSE SubSeq(SplitNL(text), 1, Len(in))

\* C16: a line whose trimmed text begins with "*" never changes the brace
\* depth, even when it ends in "{" or "}": the other lines come out as they do
\* without it; and it is indented one space more than a plain line at the
\* depth it is met at, base_indent + 2*depth + 1.
C16_CommentLineKeepsDepth ==
  LET in == Lines(src)
      out == Mapped(in, once)
      ds == <<0>> \o DepthsFrom(in, 0)
  IN pc = "indented"
       => \A i \in 1..Len(in) :
            IsComment(in[i])
              => /\ out[i] = Repeat(SP, indent + 2 * ds[i] + 1) \o Trim(in[i])
                 /\ ds[i + 1] = ds[i]
                 /\ RemoveAt(out, i) = IndentLines(RemoveAt(in, i), indent, 0)

\* A "*" line that ends in "{" inside a block, and a line of text after it.
C16_Witness ==
  LET in == Lines(src)
  IN /\ pc = "indented"
     /\ \E i \in 1..(Len(in) - 1) :
          /\ IsComment(in[i]) /\ EndsOpen(in[i])
          /\ DepthAfter(in, i - 1) >= 1
          /\ Trim(in[i + 1]) # <<>> /\ ~IsComment(in[i + 1])

====
